---- MODULE Spec2Model ----
(***************************************************************************)
(* Huffman compressor of huffman-compression/src/huffman.rs, driven by     *)
(* main.rs (encode / decode against an input and an output path) and by    *)
(* the unit tests of test.rs (build_tree and generate_huffman_code on a    *)
(* hand-made frequency table).                                             *)
(*                                                                         *)
(* A Rust String is modelled as the sequence of its UTF-8 bytes, a char as *)
(* its code point, a file as a sequence of bytes, a HashMap as a function, *)
(* and the iteration order of a HashMap as an arbitrary permutation of its *)
(* keys.  The BinaryHeap is modelled by its contract: pop returns some     *)
(* greatest element with respect to Ord for BoxedHuffNode.                 *)
(***************************************************************************)
EXTENDS Integers, Sequences, FiniteSets, TLC

\* ---------------------------------------------------------------- bounds
MaxText == 5        \* longest source text, in characters
MaxWeight == 3      \* largest weight in a hand-made frequency table
MaxBody == 5        \* longest body (table and payload bytes) of a raw container
MaxTableLen == 5    \* largest table length field of a raw container
MaxDecoded == 16    \* cap on decoded_data inside the matching loop

\* characters of the source texts: 'a', 'b' and the two-byte e-acute
Symbols == {97, 98, 233}
\* characters of the hand-made frequency tables
TreeSymbols == {97, 98, 99, 100}
\* bytes of the raw containers: 0, 1, '0' and a byte that is never valid UTF-8
RawBytes == {0, 1, 48, 255}

\* a path without a file, and a node variable without a node
NoFile == <<-1>>
NoNode == [none |-> TRUE]

VARIABLES
    fs,                \* path -> file content (sequence of bytes) or NoFile
    script,            \* command lines still to be run
    args,              \* Args of the running (or last) invocation
    pc,                \* position inside the running invocation
    result,            \* outcome of the last finished invocation
    stdout,            \* lines printed by the running (or last) invocation
    created,           \* paths File::create was called on by that invocation
    frequency_table,   \* encode: char -> count
    pending,           \* build_tree: table entries not yet pushed
    heap,              \* build_tree: nodes in the BinaryHeap
    root_node,         \* encode: result of build_tree
    lookup_table,      \* encode: char -> code
    encoded_data,      \* encode: bytes of the container being assembled
    buf,               \* decode: bytes not yet consumed
    table_len,         \* decode: table length field
    len,               \* decode: table bytes consumed so far
    dec_lookup_table,  \* decode: code -> char
    scan_order,        \* decode: iteration order of dec_lookup_table
    matched_str,       \* decode: bits not yet matched
    decoded_data       \* decode: decoded text

vars == <<fs, script, args, pc, result, stdout, created, frequency_table,
          pending, heap, root_node, lookup_table, encoded_data, buf,
          table_len, len, dec_lookup_table, scan_order, matched_str,
          decoded_data>>

treeVars == <<frequency_table, pending, heap, root_node, lookup_table>>
encVars == <<encoded_data>>
decVars == <<buf, table_len, len, dec_lookup_table, scan_order, matched_str,
             decoded_data>>
envVars == <<fs, script, args, result, stdout, created>>

\* ------------------------------------------------------------- sequences
EmptyMap == <<>>

RECURSIVE SeqsUpTo(_, _)
SeqsUpTo(S, n) ==
    IF n = 0 THEN {<<>>}
    ELSE LET shorter == SeqsUpTo(S, n - 1)
         IN  shorter \cup {Append(s, x) : s \in {t \in shorter : Len(t) = n - 1}, x \in S}

Perms(S) == {p \in [1..Cardinality(S) -> S] : \A x \in S : \E i \in DOMAIN p : p[i] = x}

Drop(s, n) == SubSeq(s, n + 1, Len(s))
Take(s, n) == SubSeq(s, 1, n)

Range(s) == {s[i] : i \in DOMAIN s}

StartsWith(s, prefix) ==
    /\ Len(prefix) <= Len(s)
    /\ Take(s, Len(prefix)) = prefix

\* ------------------------------------------------------------------ nodes
HuffLeafNode(element, weight) ==
    [is_leaf |-> TRUE, element |-> element, weight |-> weight]

HuffInternalNode(left, right, weight) ==
    [is_leaf |-> FALSE, left |-> left, right |-> right, weight |-> weight]

\* the comparison without the reversal: a max-heap by weight
BoxedLeNotReversed(a, b) == a.weight <= b.weight

\* a <= b in the Ord of BoxedHuffNode: partial_cmp compares other with self
BoxedLe(a, b) == b.weight <= a.weight

\* the nodes BinaryHeap::pop may return: the greatest ones
PopCandidates(h) == {n \in h : \A m \in h : BoxedLe(m, n)}

\* the parent takes the weight of its left child only
MergeWeightLeftOnly(left, right) == left.weight

MergeWeight(left, right) == left.weight + right.weight

\* dfs with the right branch labelled '0' as well
RECURSIVE dfs_same_bit(_, _)
dfs_same_bit(root, bits) ==
    IF root.is_leaf
    THEN root.element :> bits
    ELSE dfs_same_bit(root.right, Append(bits, 48)) @@
         dfs_same_bit(root.left, Append(bits, 48))

RECURSIVE dfs(_, _)
dfs(root, bits) ==
    IF root.is_leaf
    THEN root.element :> bits
    ELSE dfs(root.right, Append(bits, 49)) @@ dfs(root.left, Append(bits, 48))

generate_huffman_code(root) == dfs(root, <<>>)

\* ------------------------------------------------------------ invocations
Args(input, output, encode, decode) ==
    [input |-> input, output |-> output, encode |-> encode, decode |-> decode]

\* init_huffman_compression of the unit tests: neither encode nor decode runs
TestArgs == Args("./test.txt", "huffman.bin", FALSE, FALSE)

TestTable ==
    (67 :> 32) @@ (68 :> 42) @@ (69 :> 120) @@ (75 :> 7) @@
    (76 :> 42) @@ (77 :> 24) @@ (85 :> 37) @@ (90 :> 2)

TreeTables ==
    {TestTable} \cup
    UNION {[S -> 1..MaxWeight] : S \in (SUBSET TreeSymbols) \ {{}}}

\* --------------------------------------------------------------- build_tree
\* for entry in table { heap.push(leaf) }
PushLeaf ==
    /\ pc = "push"
    /\ pending # {}
    /\ \E c \in pending :
        /\ heap' = heap \cup {HuffLeafNode(c, frequency_table[c])}
        /\ pending' = pending \ {c}
    /\ UNCHANGED <<pc, frequency_table, root_node, lookup_table>>
    /\ UNCHANGED <<envVars, encVars, decVars>>

\* while heap.len() > 1 { pop left, pop right, push internal }
Merge ==
    /\ pc = "push"
    /\ pending = {}
    /\ Cardinality(heap) > 1
    /\ \E left \in PopCandidates(heap) :
         \E right \in PopCandidates(heap \ {left}) :
            heap' = (heap \ {left, right}) \cup
                    {HuffInternalNode(left, right, MergeWeight(left, right))}
    /\ UNCHANGED <<pc, frequency_table, pending, root_node, lookup_table>>
    /\ UNCHANGED <<envVars, encVars, decVars>>

\* heap.pop().unwrap()
PopRoot ==
    /\ pc = "push"
    /\ pending = {}
    /\ Cardinality(heap) <= 1
    /\ IF heap = {}
       THEN /\ pc' = "idle"
            /\ result' = "panic"
            /\ UNCHANGED <<root_node, heap>>
       ELSE /\ \E n \in heap : root_node' = n
            /\ heap' = {}
            /\ pc' = "gen"
            /\ UNCHANGED result
    /\ UNCHANGED <<frequency_table, pending, lookup_table>>
    /\ UNCHANGED <<fs, script, args, stdout, created, encVars, decVars>>

GenerateCode ==
    /\ pc = "gen"
    /\ lookup_table' = generate_huffman_code(root_node)
    /\ IF args.encode
       THEN pc' = "header" /\ UNCHANGED result
       ELSE pc' = "idle" /\ result' = "ok"
    /\ UNCHANGED <<frequency_table, pending, heap, root_node>>
    /\ UNCHANGED <<fs, script, args, stdout, created, encVars, decVars>>

\* ------------------------------------------------------------------ UTF-8
\* char::to_string / String::push: the UTF-8 bytes of a code point
Utf8Encode(c) ==
    IF c < 128 THEN <<c>>
    ELSE IF c < 2048 THEN <<192 + (c \div 64), 128 + (c % 64)>>
    ELSE IF c < 65536
         THEN <<224 + (c \div 4096), 128 + ((c \div 64) % 64), 128 + (c % 64)>>
         ELSE <<240 + (c \div 262144), 128 + ((c \div 4096) % 64),
                128 + ((c \div 64) % 64), 128 + (c % 64)>>

\* number of bytes announced by a leading byte, 0 when it cannot lead
Utf8Width(b) ==
    IF b < 128 THEN 1
    ELSE IF b \in 194..223 THEN 2
    ELSE IF b \in 224..239 THEN 3
    ELSE IF b \in 240..244 THEN 4
    ELSE 0

Utf8FirstOk(s) ==
    LET w == Utf8Width(s[1]) IN
    /\ w > 0
    /\ Len(s) >= w
    /\ \A i \in 2..w : s[i] \in 128..191
    /\ s[1] = 224 => s[2] >= 160
    /\ s[1] = 237 => s[2] <= 159
    /\ s[1] = 240 => s[2] >= 144
    /\ s[1] = 244 => s[2] <= 143

\* String::from_utf8 / read_to_string succeed
RECURSIVE Utf8Valid(_)
Utf8Valid(s) ==
    \/ s = <<>>
    \/ /\ Utf8FirstOk(s)
       /\ Utf8Valid(Drop(s, Utf8Width(s[1])))

Utf8First(s) ==
    LET w == Utf8Width(s[1]) IN
    IF w = 1 THEN s[1]
    ELSE IF w = 2 THEN (s[1] - 192) * 64 + (s[2] - 128)
    ELSE IF w = 3 THEN (s[1] - 224) * 4096 + (s[2] - 128) * 64 + (s[3] - 128)
    ELSE (s[1] - 240) * 262144 + (s[2] - 128) * 4096 + (s[3] - 128) * 64 + (s[4] - 128)

\* str::chars of a valid string
RECURSIVE Chars(_)
Chars(s) ==
    IF s = <<>> THEN <<>>
    ELSE <<Utf8First(s)>> \o Chars(Drop(s, Utf8Width(s[1])))

RECURSIVE Utf8EncodeAll(_)
Utf8EncodeAll(cs) ==
    IF cs = <<>> THEN <<>> ELSE Utf8Encode(Head(cs)) \o Utf8EncodeAll(Tail(cs))

\* ------------------------------------------------------------------ bytes
MAGIC_NUMBER == <<72, 85, 70, 70>>

\* u32::to_be_bytes
ToBeBytes(n) ==
    <<(n \div 16777216) % 256, (n \div 65536) % 256, (n \div 256) % 256, n % 256>>

\* Buf::get_u32 on the first four bytes
GetU32(b) == b[1] * 16777216 + b[2] * 65536 + b[3] * 256 + b[4]

\* format!("{:08b}", c)
RECURSIVE BinaryDigits(_, _)
BinaryDigits(c, width) ==
    IF width = 0 THEN <<>>
    ELSE Append(BinaryDigits(c \div 2, width - 1), 48 + (c % 2))

\* u8::from_str_radix(s, 2) on a string of '0' and '1'
RECURSIVE FromStrRadix2(_)
FromStrRadix2(s) ==
    IF s = <<>> THEN 0
    ELSE 2 * FromStrRadix2(Take(s, Len(s) - 1)) + (s[Len(s)] - 48)

\* ------------------------------------------------------------------- read
\* the loop of read: table.insert(c, frequency + 1) for every char
RECURSIVE CountChars(_, _)
CountChars(cs, table) ==
    IF cs = <<>> THEN table
    ELSE LET c == Head(cs)
             frequency == IF c \in DOMAIN table THEN table[c] ELSE 0
         IN  CountChars(Tail(cs), (c :> frequency + 1) @@ table)

\* ----------------------------------------------------------- write_header
\* the loop of write_header over the entries in iteration order
RECURSIVE HeaderEntries(_, _)
HeaderEntries(order, table) ==
    IF order = <<>> THEN <<>>
    ELSE LET key == Utf8Encode(Head(order))
             value == table[Head(order)]
         IN  <<Len(key) % 256>> \o key \o <<Len(value) % 256>> \o value
             \o HeaderEntries(Tail(order), table)

write_header(order, table) ==
    LET entries == HeaderEntries(order, table)
    IN  MAGIC_NUMBER \o ToBeBytes(Len(entries)) \o entries

\* ---------------------------------------------------------- encode_content
RECURSIVE ConcatCodes(_, _)
ConcatCodes(cs, table) ==
    IF cs = <<>> THEN <<>> ELSE table[Head(cs)] \o ConcatCodes(Tail(cs), table)

\* while encoded_data.len() % 8 != 0 { encoded_data.push('0') }
RECURSIVE PadToByte(_)
PadToByte(bits) ==
    IF Len(bits) % 8 = 0 THEN bits ELSE PadToByte(Append(bits, 48))

\* chunks(8) mapped through from_str_radix
RECURSIVE PackBits(_)
PackBits(bits) ==
    IF bits = <<>> THEN <<>>
    ELSE <<FromStrRadix2(Take(bits, 8))>> \o PackBits(Drop(bits, 8))

encode_content(text, table) == PackBits(PadToByte(ConcatCodes(Chars(text), table)))

\* ------------------------------------------------------------------ decode
\* one iteration of the table loop of decode, on the unconsumed bytes b
ParseEntry(b) ==
    IF b = <<>> THEN [status |-> "panic"]
    ELSE
    LET key_len == b[1]
        b1 == Tail(b)
    IN  IF Len(b1) < key_len THEN [status |-> "panic"]
        ELSE
        LET key == Take(b1, key_len)
            b2 == Drop(b1, key_len)
        IN  IF ~Utf8Valid(key) THEN [status |-> "err"]
            ELSE IF b2 = <<>> THEN [status |-> "panic"]
            ELSE
            LET value_len == b2[1]
                b3 == Tail(b2)
            IN  IF Len(b3) < value_len THEN [status |-> "panic"]
                ELSE
                LET value == Take(b3, value_len)
                IN  IF ~Utf8Valid(value) THEN [status |-> "err"]
                    ELSE IF key = <<>> THEN [status |-> "panic"]
                    ELSE [status |-> "ok",
                          key |-> Chars(key)[1],
                          value |-> value,
                          rest |-> Drop(b3, value_len),
                          consumed |-> 1 + key_len + 1 + value_len]

\* the content string: every payload byte as eight binary digits
RECURSIVE Content(_)
Content(b) ==
    IF b = <<>> THEN <<>> ELSE BinaryDigits(Head(b), 8) \o Content(Tail(b))

\* one pass of the for loop over the lookup table, in its iteration order
RECURSIVE ScanPass(_, _, _, _)
ScanPass(order, table, matched, decoded) ==
    IF order = <<>> THEN [matched_str |-> matched, decoded_data |-> decoded]
    ELSE IF StartsWith(matched, Head(order))
         THEN ScanPass(Tail(order), table, Drop(matched, Len(Head(order))),
                       decoded \o Utf8Encode(table[Head(order)]))
         ELSE ScanPass(Tail(order), table, matched, decoded)

\* ------------------------------------------------------------ main, encode
Paths == {"txt", "bin", "bin2", "out"}
NoArgs == Args("", "", FALSE, FALSE)

TextScripts ==
    { <<Args("txt", "bin", TRUE, FALSE), Args("bin", "out", FALSE, TRUE)>>,
      <<Args("txt", "bin", TRUE, FALSE), Args("txt", "bin2", TRUE, FALSE)>>,
      <<Args("txt", "bin", TRUE, TRUE)>> }

RawScripts == { <<Args("bin", "out", FALSE, TRUE)>> }

RawFiles ==
    {Take(MAGIC_NUMBER \o ToBeBytes(0), n) : n \in 0..7} \cup
    {<<72, 85, 70, 88>> \o ToBeBytes(0)} \cup
    {MAGIC_NUMBER \o ToBeBytes(t) \o body :
        t \in 0..MaxTableLen, body \in SeqsUpTo(RawBytes, MaxBody)}

\* fn main: parse the arguments, then encode and/or decode
Main ==
    /\ pc = "idle"
    /\ script # <<>>
    /\ args' = Head(script)
    /\ script' = Tail(script)
    /\ stdout' = <<>>
    /\ created' = {}
    /\ frequency_table' = EmptyMap
    /\ pending' = {}
    /\ heap' = {}
    /\ root_node' = NoNode
    /\ lookup_table' = EmptyMap
    /\ encoded_data' = <<>>
    /\ buf' = <<>>
    /\ table_len' = 0
    /\ len' = 0
    /\ dec_lookup_table' = EmptyMap
    /\ scan_order' = <<>>
    /\ matched_str' = <<>>
    /\ decoded_data' = <<>>
    /\ IF args'.encode THEN pc' = "read" /\ result' = "none"
       ELSE IF args'.decode THEN pc' = "d_read" /\ result' = "none"
       ELSE pc' = "idle" /\ result' = "ok"
    /\ UNCHANGED fs

\* read: open and read the source, count its characters
Read ==
    /\ pc = "read"
    /\ IF fs[args.input] = NoFile \/ ~Utf8Valid(fs[args.input])
       THEN /\ pc' = "idle"
            /\ result' = "err"
            /\ UNCHANGED <<frequency_table, pending>>
       ELSE /\ frequency_table' = CountChars(Chars(fs[args.input]), EmptyMap)
            /\ pending' = DOMAIN frequency_table'
            /\ pc' = "push"
            /\ UNCHANGED result
    /\ UNCHANGED <<heap, root_node, lookup_table>>
    /\ UNCHANGED <<fs, script, args, stdout, created, encVars, decVars>>

WriteHeader ==
    /\ pc = "header"
    /\ \E order \in Perms(DOMAIN lookup_table) :
         encoded_data' = write_header(order, lookup_table)
    /\ pc' = "content"
    /\ UNCHANGED <<envVars, treeVars, decVars>>

EncodeContent ==
    /\ pc = "content"
    /\ IF fs[args.input] = NoFile \/ ~Utf8Valid(fs[args.input])
       THEN /\ pc' = "idle"
            /\ result' = "err"
            /\ UNCHANGED encoded_data
       ELSE IF \E c \in Range(Chars(fs[args.input])) : c \notin DOMAIN lookup_table
       THEN /\ pc' = "idle"
            /\ result' = "panic"
            /\ UNCHANGED encoded_data
       ELSE /\ encoded_data' = encoded_data \o encode_content(fs[args.input], lookup_table)
            /\ pc' = "write"
            /\ UNCHANGED result
    /\ UNCHANGED <<fs, script, args, stdout, created, treeVars, decVars>>

\* the end of encode: create the destination and write the container
WriteFile ==
    /\ pc = "write"
    /\ fs' = [fs EXCEPT ![args.output] = encoded_data]
    /\ created' = created \cup {args.output}
    /\ IF args.decode
       THEN pc' = "d_read" /\ UNCHANGED result
       ELSE pc' = "idle" /\ result' = "ok"
    /\ UNCHANGED <<script, args, stdout, treeVars, encVars, decVars>>

\* ------------------------------------------------------------------ decode
\* open and read the source, check the magic number
DecodeRead ==
    /\ pc = "d_read"
    /\ IF fs[args.input] = NoFile
       THEN /\ pc' = "idle" /\ result' = "err"
            /\ UNCHANGED <<stdout, buf>>
       ELSE IF Len(fs[args.input]) < 4
       THEN /\ pc' = "idle" /\ result' = "panic"
            /\ UNCHANGED <<stdout, buf>>
       ELSE IF Take(fs[args.input], 4) # MAGIC_NUMBER
       THEN /\ pc' = "idle" /\ result' = "ok"
            /\ stdout' = Append(stdout, "not huffman compression file!")
            /\ UNCHANGED buf
       ELSE /\ pc' = "d_header"
            /\ buf' = fs[args.input]
            /\ UNCHANGED <<result, stdout>>
    /\ UNCHANGED <<table_len, len, dec_lookup_table, scan_order, matched_str,
                   decoded_data>>
    /\ UNCHANGED <<fs, script, args, created, treeVars, encVars>>

\* skip the magic number, read the table length
DecodeHeader ==
    /\ pc = "d_header"
    /\ IF Len(buf) < 8
       THEN /\ pc' = "idle" /\ result' = "panic"
            /\ UNCHANGED <<buf, table_len>>
       ELSE /\ table_len' = GetU32(Drop(buf, 4))
            /\ buf' = Drop(buf, 8)
            /\ pc' = "d_table"
            /\ UNCHANGED result
    /\ UNCHANGED <<len, dec_lookup_table, scan_order, matched_str, decoded_data>>
    /\ UNCHANGED <<fs, script, args, stdout, created, treeVars, encVars>>

\* while len < table_len: one entry
DecodeEntry ==
    /\ pc = "d_table"
    /\ len < table_len
    /\ LET e == ParseEntry(buf) IN
       IF e.status = "ok"
       THEN /\ dec_lookup_table' =
                  (e.value :> e.key) @@ dec_lookup_table
            /\ buf' = e.rest
            /\ len' = len + e.consumed
            /\ UNCHANGED <<pc, result>>
       ELSE /\ pc' = "idle"
            /\ result' = e.status
            /\ UNCHANGED <<buf, len, dec_lookup_table>>
    /\ UNCHANGED <<table_len, scan_order, matched_str, decoded_data>>
    /\ UNCHANGED <<fs, script, args, stdout, created, treeVars, encVars>>

\* the table is read: expand the remaining bytes into the content string
DecodeContent ==
    /\ pc = "d_table"
    /\ len >= table_len
    /\ matched_str' = Content(buf)
    /\ decoded_data' = <<>>
    /\ scan_order' \in Perms(DOMAIN dec_lookup_table)
    /\ pc' = "d_match"
    /\ UNCHANGED <<buf, table_len, len, dec_lookup_table>>
    /\ UNCHANGED <<envVars, treeVars, encVars>>

\* while matched_str.len() > 0: one pass over the lookup table
DecodeMatch ==
    /\ pc = "d_match"
    /\ Len(matched_str) > 0
    /\ Len(decoded_data) < MaxDecoded
    /\ LET pass == ScanPass(scan_order, dec_lookup_table, matched_str, decoded_data)
       IN  /\ matched_str' = pass.matched_str
           /\ decoded_data' = pass.decoded_data
    /\ UNCHANGED <<pc, buf, table_len, len, dec_lookup_table, scan_order>>
    /\ UNCHANGED <<envVars, treeVars, encVars>>

\* the end of decode: create the destination and write the decoded text
DecodeWrite ==
    /\ pc = "d_match"
    /\ Len(matched_str) = 0
    /\ fs' = [fs EXCEPT ![args.output] = decoded_data]
    /\ created' = created \cup {args.output}
    /\ pc' = "idle"
    /\ result' = "ok"
    /\ UNCHANGED <<script, args, stdout, treeVars, encVars, decVars>>

\* --------------------------------------------------------- specifications
InitLocals ==
    /\ args = NoArgs
    /\ pc = "idle"
    /\ result = "none"
    /\ stdout = <<>>
    /\ created = {}
    /\ frequency_table = EmptyMap
    /\ pending = {}
    /\ heap = {}
    /\ root_node = NoNode
    /\ lookup_table = EmptyMap
    /\ encoded_data = <<>>
    /\ buf = <<>>
    /\ table_len = 0
    /\ len = 0
    /\ dec_lookup_table = EmptyMap
    /\ scan_order = <<>>
    /\ matched_str = <<>>
    /\ decoded_data = <<>>

\* a source text and no other file, or a raw container and no other file
Init ==
    /\ InitLocals
    /\ \/ /\ \E text \in SeqsUpTo(Symbols, MaxText) :
               fs = [p \in Paths |-> IF p = "txt" THEN Utf8EncodeAll(text) ELSE NoFile]
          /\ script \in TextScripts
       \/ /\ \E raw \in RawFiles :
               fs = [p \in Paths |-> IF p = "bin" THEN raw ELSE NoFile]
          /\ script \in RawScripts

Next ==
    \/ Main
    \/ Read
    \/ PushLeaf
    \/ Merge
    \/ PopRoot
    \/ GenerateCode
    \/ WriteHeader
    \/ EncodeContent
    \/ WriteFile
    \/ DecodeRead
    \/ DecodeHeader
    \/ DecodeEntry
    \/ DecodeContent
    \/ DecodeMatch
    \/ DecodeWrite

Spec == Init /\ [][Next]_vars

\* ------------------------------------------------------ the unit tests
InitTree ==
    /\ fs = [p \in {"./test.txt", "huffman.bin"} |-> NoFile]
    /\ script = <<>>
    /\ args = TestArgs
    /\ pc = "push"
    /\ result = "none"
    /\ stdout = <<>>
    /\ created = {}
    /\ frequency_table \in TreeTables
    /\ pending = DOMAIN frequency_table
    /\ heap = {}
    /\ root_node = NoNode
    /\ lookup_table = EmptyMap
    /\ encoded_data = <<>>
    /\ buf = <<>>
    /\ table_len = 0
    /\ len = 0
    /\ dec_lookup_table = EmptyMap
    /\ scan_order = <<>>
    /\ matched_str = <<>>
    /\ decoded_data = <<>>

NextTree == PushLeaf \/ Merge \/ PopRoot \/ GenerateCode

SpecTree == InitTree /\ [][NextTree]_vars

\* ================================================================= claims
TreeDone == pc = "idle" /\ result = "ok" /\ ~args.encode /\ ~args.decode

RECURSIVE SumOver(_, _)
SumOver(f, S) ==
    IF S = {} THEN 0
    ELSE LET x == CHOOSE y \in S : TRUE IN f[x] + SumOver(f, S \ {x})

RECURSIVE Leaves(_)
Leaves(n) == IF n.is_leaf THEN {n} ELSE Leaves(n.left) \cup Leaves(n.right)

RECURSIVE WeightsAddUp(_)
WeightsAddUp(n) ==
    n.is_leaf \/ ( /\ n.weight = n.left.weight + n.right.weight
                   /\ WeightsAddUp(n.left)
                   /\ WeightsAddUp(n.right) )

RECURSIVE LeftNotHeavier(_)
LeftNotHeavier(n) ==
    n.is_leaf \/ ( /\ n.left.weight <= n.right.weight
                   /\ LeftNotHeavier(n.left)
                   /\ LeftNotHeavier(n.right) )

\* C2: in the table generate_huffman_code returns for the tree of a non-empty
\* frequency table every symbol of the table has a code, and no symbol's code
\* is a prefix of, or equal to, the code of another symbol.
C2_PrefixFree ==
    TreeDone =>
        /\ DOMAIN lookup_table = DOMAIN frequency_table
        /\ \A s \in DOMAIN lookup_table : \A t \in DOMAIN lookup_table :
              s # t => ~StartsWith(lookup_table[t], lookup_table[s])

C2_Witness ==
    /\ TreeDone
    /\ Cardinality(DOMAIN lookup_table) = 4
    /\ \E s \in DOMAIN lookup_table : Len(lookup_table[s]) = 1
    /\ \E s \in DOMAIN lookup_table : Len(lookup_table[s]) = 3

\* C5: every internal node built by build_tree weighs the sum of its two
\* children, the leaves of the returned tree are the entries of the table,
\* and the root weighs the sum of all frequencies (306 for the table of the
\* unit test, with a right subtree of weight 186).
C5_TreeWeight ==
    /\ \A n \in heap : WeightsAddUp(n)
    /\ root_node # NoNode =>
          /\ WeightsAddUp(root_node)
          /\ Leaves(root_node) =
               {HuffLeafNode(c, frequency_table[c]) : c \in DOMAIN frequency_table}
          /\ root_node.weight = SumOver(frequency_table, DOMAIN frequency_table)
          /\ frequency_table = TestTable =>
                /\ root_node.weight = 306
                /\ root_node.right.weight = 186

C5_Witness ==
    /\ frequency_table = TestTable
    /\ root_node # NoNode
    /\ ~root_node.is_leaf
    /\ root_node.weight = 306
    /\ ~root_node.right.is_leaf

C10_MergeStep ==
    (pc = "push" /\ pending = {} /\ Cardinality(heap) > 1) =>
        \E left \in heap : \E right \in heap \ {left} :
            /\ \A m \in heap : left.weight <= m.weight
            /\ \A m \in heap \ {left} : right.weight <= m.weight
            /\ heap' = (heap \ {left, right}) \cup
                       {HuffInternalNode(left, right, left.weight + right.weight)}

C10_TreeOrdered ==
    /\ \A n \in heap : LeftNotHeavier(n)
    /\ root_node # NoNode =>
          /\ LeftNotHeavier(root_node)
          /\ frequency_table = TestTable =>
                /\ root_node.left = HuffLeafNode(69, 120)
                /\ ~root_node.right.is_leaf

\* C10: every iteration of build_tree removes two nodes whose weights are the
\* two lowest in the queue, makes the first the left and the second the right
\* child of a new node and inserts that node; so in every internal node the
\* left child is not heavier than the right one (for the table of the unit
\* test the root's left child is the leaf E of weight 120, its right child an
\* internal node).
C10_MergeOrder == [][C10_MergeStep]_vars /\ []C10_TreeOrdered

C10_Witness ==
    /\ frequency_table = TestTable
    /\ root_node # NoNode
    /\ root_node.left = HuffLeafNode(69, 120)
    /\ root_node.right.left.weight = 79
    /\ root_node.right.right.weight = 107

ExpectedTestCodes ==
    (67 :> <<49, 49, 49, 48>>) @@ (68 :> <<49, 48, 49>>) @@ (69 :> <<48>>) @@
    (75 :> <<49, 49, 49, 49, 48, 49>>) @@ (76 :> <<49, 49, 48>>) @@
    (77 :> <<49, 49, 49, 49, 49>>) @@ (85 :> <<49, 48, 48>>) @@
    (90 :> <<49, 49, 49, 49, 48, 48>>)

\* C6: for the table of the unit test generate_huffman_code(build_tree(table))
\* returns exactly C:1110 D:101 E:0 K:111101 L:110 M:11111 U:100 Z:111100,
\* whatever the push order and however the equal weights of D and L are popped.
C6_TestCodes ==
    (TreeDone /\ frequency_table = TestTable) => lookup_table = ExpectedTestCodes

\* ------------------------------------------------- claims about the files
Finished == pc = "idle" /\ result # "none"

\* the running (or last) invocation decodes the container encode wrote for
\* the source text
DecodesEncoded ==
    /\ args = Args("bin", "out", FALSE, TRUE)
    /\ fs["txt"] # NoFile
    /\ fs["bin"] # NoFile

\* a pass of the matching loop that consumes no bit: the loop cannot end
CannotAdvance ==
    /\ pc = "d_match"
    /\ Len(matched_str) > 0
    /\ ScanPass(scan_order, dec_lookup_table, matched_str, decoded_data).matched_str
         = matched_str

\* C1: for every non-empty source text x, decode of the container encode
\* produced for x ends and writes exactly x to its destination.
C1_RoundTrip ==
    (DecodesEncoded /\ fs["txt"] # <<>>) =>
        /\ ~CannotAdvance
        /\ Finished => (result = "ok" /\ fs["out"] = fs["txt"])

\* C3: for a source of n >= 1 repetitions of one symbol encode completes
\* without error and decode of its container writes the n symbols back.
C3_SingleSymbol ==
    (fs["txt"] # NoFile /\ Cardinality(Range(Chars(fs["txt"]))) = 1) =>
        /\ (args.encode /\ ~args.decode /\ Finished) => result = "ok"
        /\ (DecodesEncoded /\ Finished) =>
              (result = "ok" /\ Chars(fs["out"]) = Chars(fs["txt"]))

\* C4: when the source of decode does not begin with the magic bytes, decode
\* returns an error to its caller, does not panic, and does not create the
\* destination.
C4_WrongMagic ==
    ( /\ Finished
      /\ args.decode
      /\ ~args.encode
      /\ fs[args.input] # NoFile
      /\ ~StartsWith(fs[args.input], MAGIC_NUMBER) ) =>
        /\ result = "err"
        /\ args.output \notin created

\* the entries of the table of a container that encode wrote
RECURSIVE EntrySet(_, _)
EntrySet(b, n) ==
    IF n <= 0 THEN {}
    ELSE LET e == ParseEntry(b)
         IN  {<<e.key, e.value>>} \cup EntrySet(e.rest, n - e.consumed)

TableOf(file) == EntrySet(Drop(file, 8), GetU32(Drop(file, 4)))

\* C7: two encodings of the same source that assign the same codes (the
\* tie-break among equal weights fixed) produce byte-identical containers.
C7_Idempotent ==
    ( /\ fs["bin"] # NoFile
      /\ fs["bin2"] # NoFile
      /\ TableOf(fs["bin"]) = TableOf(fs["bin2"]) ) =>
        fs["bin"] = fs["bin2"]

\* the bytes b are a whole number of entries with valid UTF-8 fields
RECURSIVE WholeEntries(_)
WholeEntries(b) ==
    \/ b = <<>>
    \/ /\ Len(b) >= 2 + b[1]
       /\ Len(b) >= 2 + b[1] + b[2 + b[1]]
       /\ Utf8Valid(SubSeq(b, 2, 1 + b[1]))
       /\ Utf8Valid(SubSeq(b, 3 + b[1], 2 + b[1] + b[2 + b[1]]))
       /\ WholeEntries(Drop(b, 2 + b[1] + b[2 + b[1]]))

MalformedTable(file) ==
    \/ Len(file) < 8
    \/ Len(file) < 8 + GetU32(Drop(file, 4))
    \/ ~WholeEntries(SubSeq(file, 9, 8 + GetU32(Drop(file, 4))))

\* C8: on a source with the right magic whose table length does not end on an
\* entry boundary, or whose table is truncated or not valid UTF-8, decode
\* returns an error, reads no entry beyond the table length, never reaches
\* the matching loop and does not create the destination.
C8_MalformedTable ==
    ( /\ args.decode
      /\ ~args.encode
      /\ fs[args.input] # NoFile
      /\ StartsWith(fs[args.input], MAGIC_NUMBER)
      /\ MalformedTable(fs[args.input]) ) =>
        /\ len <= table_len
        /\ pc # "d_match"
        /\ Finished => (result = "err" /\ args.output \notin created)

\* C9: on every container encode produced the matching loop of decode reaches
\* the state where no bits remain, and the pad bits of the last byte add no
\* symbol: the output never holds more symbols than the source.
C9_DecodeTerminates ==
    (DecodesEncoded /\ pc \in {"d_match", "idle"}) =>
        /\ ~CannotAdvance
        /\ Len(Chars(decoded_data)) <= Len(Chars(fs["txt"]))

====
